---- MODULE Spec2Model ----
(***************************************************************************)
(* Model of the ATtiny25 car power supply firmware (src/main.c).           *)
(*                                                                         *)
(* The CPU executes main() and the two interrupt handlers one C statement  *)
(* at a time (pc names the source line about to run).  The environment     *)
(* (ignition switch, host computer, timer 0 hardware) acts between any two *)
(* statements.  I/O registers are modelled as the set of their bits that   *)
(* are 1.  An interrupt is taken wherever the I bit allows it.  A          *)
(* statement PORTB = PINB op x is a read of PINB into a register followed  *)
(* by a write of PORTB.                                                    *)
(***************************************************************************)
EXTENDS Naturals, Sequences, FiniteSets, TLC

VARIABLES
    pc,                \* source line the CPU is about to execute
    PORTB,             \* port B data register: set of bits that are 1
    DDRB,              \* port B direction register: set of output bits
    TCCR0B,            \* timer 0 clock select bits that are 1
    TIMSK,             \* timer interrupt mask
    GIMSK,             \* general interrupt mask
    PCMSK,             \* pin change mask
    SREG_I,            \* global interrupt enable bit
    PCIF,              \* pin change interrupt flag (an edge is pending)
    TOV0,              \* timer 0 overflow flag (a tick is pending)
    pi_script_running, \* static bool of main.c
    pinPI_OUT,         \* level the host drives on PB0
    pinSWITCHED_PWR,   \* level of the 5V switched sense on PB1
    sensedPI_OUT,      \* result of the PINB test of line 72 in the latest pass
    sensedSW,          \* result of the PINB test of line 87 in the latest pass
    entryPORTB,        \* PORTB when the latest pin change pass was entered
    entryRunning,      \* pi_script_running when the latest pass was entered
    passes,            \* TRUE once a pin change pass has been entered
    entryTCCR0B,       \* TCCR0B when the latest pin change pass was entered
    hostRose,          \* TRUE once PI_OUT rose while its pin change was enabled
    stack,             \* return addresses pushed by interrupt entry
    tmp                \* register holding the PINB value read at line 93 / 105

vars == <<pc, PORTB, DDRB, TCCR0B, TIMSK, GIMSK, PCMSK, SREG_I, PCIF, TOV0,
          pi_script_running, pinPI_OUT, pinSWITCHED_PWR,
          sensedPI_OUT, sensedSW, entryPORTB, entryRunning, passes,
          entryTCCR0B, hostRose, stack, tmp>>

\* ------------------------------------------------------------------ pins
PI_IN        == "PB3"
LED          == "PB4"
BIG_SWITCH   == "PB2"
SWITCHED_PWR == "PB1"
PI_OUT       == "PB0"

PortBits == {PI_OUT, SWITCHED_PWR, BIG_SWITCH, PI_IN, LED}
ClockSelect == {"CS00", "CS01", "CS02"}

\* Levels applied from outside to the pins that are not driven by the chip.
ExternalHigh ==
    (IF pinPI_OUT THEN {PI_OUT} ELSE {}) \cup
    (IF pinSWITCHED_PWR THEN {SWITCHED_PWR} ELSE {})

\* PINB: an output pin reads back the level the port drives, an input pin
\* reads the level applied from outside.
PINB == (PORTB \cap DDRB) \cup (ExternalHigh \ DDRB)

\* ------------------------------------------------------------------ timer
\* enable_timer0: TCCR0B |= CS02 | CS00
enable_timer0(t) == t \cup {"CS02", "CS00"}

\* Variant of disable_timer0 clearing one clock select bit only.
disable_timer0_Partial(t) == t \ {"CS02"}

\* disable_timer0: TCCR0B &= ~(CS02 | CS01 | CS00)
disable_timer0(t) == t \ {"CS02", "CS01", "CS00"}

\* ------------------------------------------------------------------ views
MainPowerEnabled == BIG_SWITCH \in PORTB /\ BIG_SWITCH \in DDRB
HostNotify       == PI_IN \in PORTB /\ PI_IN \in DDRB
LedBit           == LED \in PORTB /\ LED \in DDRB
TimerArmed       == TCCR0B \cap ClockSelect # {}
LedState ==
    IF TimerArmed THEN "Blinking" ELSE IF LedBit THEN "SolidOn" ELSE "Off"

MainPCs  == {"m111", "m114", "m115", "m119", "m120", "m123", "m126"}
PinPCs   == {"p72", "p74", "p75", "p79", "p83", "p84", "p87", "p89", "p92",
             "p93", "p93w", "p96", "p99", "p_reti"}
TimerPCs == {"t105", "t105w", "t_reti"}
Booted   == pc \notin MainPCs

\* ------------------------------------------------------------------ init
\* Power-on reset: I/O registers are zero, .bss/.data initialised, the CPU is
\* at the start of main.  The controller only gets power from the switched
\* supply at this point (header comment), so SWITCHED_PWR is high.
Init ==
    /\ pc = "m111"
    /\ PORTB = {} /\ DDRB = {} /\ TCCR0B = {} /\ TIMSK = {}
    /\ GIMSK = {} /\ PCMSK = {}
    /\ SREG_I = FALSE /\ PCIF = FALSE /\ TOV0 = FALSE
    /\ pi_script_running = FALSE
    /\ pinPI_OUT \in BOOLEAN
    /\ pinSWITCHED_PWR = TRUE
    /\ sensedPI_OUT = FALSE /\ sensedSW = FALSE
    /\ entryPORTB = {} /\ entryRunning = FALSE /\ passes = FALSE
    /\ entryTCCR0B = {} /\ hostRose = FALSE
    /\ stack = <<>> /\ tmp = {}

hist == <<sensedPI_OUT, sensedSW, entryPORTB, entryRunning, passes,
          entryTCCR0B, hostRose>>
regs == <<stack, tmp>>
env  == <<pinPI_OUT, pinSWITCHED_PWR>>
irq  == <<SREG_I, PCIF, TOV0>>
cfg  == <<DDRB, TIMSK, GIMSK, PCMSK>>

\* ------------------------------------------------------------------ main
Main111 ==
    /\ pc = "m111"
    /\ DDRB' = {LED, BIG_SWITCH, PI_IN}
    /\ pc' = "m114"
    /\ UNCHANGED <<PORTB, TCCR0B, TIMSK, GIMSK, PCMSK, irq, pi_script_running,
                   env, hist, regs>>

Main114 ==
    /\ pc = "m114"
    /\ GIMSK' = {"PCIE"}
    /\ pc' = "m115"
    /\ UNCHANGED <<PORTB, DDRB, TCCR0B, TIMSK, PCMSK, irq, pi_script_running,
                   env, hist, regs>>

\* Variant of line 115 enabling the pin change of one input only.
EnabledPins_OnlySwitched == {SWITCHED_PWR}

\* PCMSK = _BV(SWITCHED_PWR) | _BV(PI_OUT)
EnabledPins == {SWITCHED_PWR, PI_OUT}

Main115 ==
    /\ pc = "m115"
    /\ PCMSK' = EnabledPins
    /\ pc' = "m119"
    /\ UNCHANGED <<PORTB, DDRB, TCCR0B, TIMSK, GIMSK, irq, pi_script_running,
                   env, hist, regs>>

Main119 ==
    /\ pc = "m119"
    /\ TIMSK' = {"TOIE0"}
    /\ pc' = "m120"
    /\ UNCHANGED <<PORTB, DDRB, TCCR0B, GIMSK, PCMSK, irq, pi_script_running,
                   env, hist, regs>>

Main120 ==
    /\ pc = "m120"
    /\ TCCR0B' = enable_timer0(TCCR0B)
    /\ pc' = "m123"
    /\ UNCHANGED <<PORTB, cfg, irq, pi_script_running, env, hist, regs>>

\* Variant of line 123 that also lights the LED at boot.
BootPort_WithLed == {BIG_SWITCH, LED}

\* PORTB = _BV(BIG_SWITCH)
BootPort == {BIG_SWITCH}

Main123 ==
    /\ pc = "m123"
    /\ PORTB' = BootPort
    /\ pc' = "m126"
    /\ UNCHANGED <<TCCR0B, cfg, irq, pi_script_running, env, hist, regs>>

\* sei(), then for(;;) sleep_mode();
Main126 ==
    /\ pc = "m126"
    /\ SREG_I' = TRUE
    /\ pc' = "sleep"
    /\ UNCHANGED <<PORTB, TCCR0B, cfg, PCIF, TOV0, pi_script_running, env, hist, regs>>

\* ------------------------------------------------------------------ ISR(PCINT0_vect)
\* The pin change vector is taken when the flag is set, the source is enabled
\* and interrupts are enabled globally; hardware clears the flag and the I bit.
\* Variant: a handler declared ISR_NOBLOCK runs with interrupts enabled.
IAfterEntry_NoBlock == TRUE

\* ISR(...) without attributes: the I bit cleared by the hardware on vector
\* entry stays cleared until reti.
IAfterEntry == FALSE

PinChangeEntry ==
    /\ SREG_I /\ PCIF /\ "PCIE" \in GIMSK
    /\ PCIF' = FALSE
    /\ SREG_I' = IAfterEntry
    /\ stack' = <<pc>> \o stack
    /\ pc' = "p72"
    /\ entryPORTB' = PORTB
    /\ entryRunning' = pi_script_running
    /\ entryTCCR0B' = TCCR0B
    /\ passes' = TRUE
    /\ UNCHANGED <<PORTB, TCCR0B, cfg, TOV0, pi_script_running, env,
                   sensedPI_OUT, sensedSW, hostRose, tmp>>

\* Variants of the line 72/77 test with a plausible slip each.
Branch72_NoLatch(high, running) ==
    IF high THEN "p74" ELSE "p79"
Branch72_Swapped(high, running) ==
    IF ~high THEN "p74" ELSE IF running THEN "p79" ELSE "p87"
Branch72_SkipLatch(high, running) ==
    IF high THEN "p87" ELSE IF running THEN "p79" ELSE "p87"

\* if (PINB & PI_OUT) {...} else if (pi_script_running) {...}
Branch72(high, running) ==
    IF high THEN "p74" ELSE IF running THEN "p79" ELSE "p87"

Pin72 ==
    /\ pc = "p72"
    /\ sensedPI_OUT' = (PI_OUT \in PINB)
    /\ pc' = Branch72(PI_OUT \in PINB, pi_script_running)
    /\ UNCHANGED <<PORTB, TCCR0B, cfg, irq, pi_script_running, env,
                   sensedSW, entryPORTB, entryRunning, passes, entryTCCR0B,
                   hostRose, regs>>

Pin74 ==
    /\ pc = "p74"
    /\ TCCR0B' = disable_timer0(TCCR0B)
    /\ pc' = "p75"
    /\ UNCHANGED <<PORTB, cfg, irq, pi_script_running, env, hist, regs>>

Pin75 ==
    /\ pc = "p75"
    /\ pi_script_running' = TRUE
    /\ pc' = "p87"
    /\ UNCHANGED <<PORTB, TCCR0B, cfg, irq, env, hist, regs>>

\* Variant of line 79 clearing the wrong bit.
PowerOff_WrongBit(port) == port \ {LED}

\* PORTB &= ~_BV(BIG_SWITCH)
PowerOff(port) == port \ {BIG_SWITCH}

Pin79 ==
    /\ pc = "p79"
    /\ PORTB' = PowerOff(PORTB)
    /\ pc' = "p83"
    /\ UNCHANGED <<TCCR0B, cfg, irq, pi_script_running, env, hist, regs>>

Pin83 ==
    /\ pc = "p83"
    /\ TCCR0B' = disable_timer0(TCCR0B)
    /\ pc' = "p84"
    /\ UNCHANGED <<PORTB, cfg, irq, pi_script_running, env, hist, regs>>

Pin84 ==
    /\ pc = "p84"
    /\ PORTB' = PORTB \ {LED}
    /\ pc' = "p87"
    /\ UNCHANGED <<TCCR0B, cfg, irq, pi_script_running, env, hist, regs>>

\* Variant of the line 87 test with the branches inverted.
Branch87_Inverted(high) == IF high THEN "p96" ELSE "p89"

\* if (PINB & SWITCHED_PWR) {...} else {...}
Branch87(high) == IF high THEN "p89" ELSE "p96"

Pin87 ==
    /\ pc = "p87"
    /\ sensedSW' = (SWITCHED_PWR \in PINB)
    /\ pc' = Branch87(SWITCHED_PWR \in PINB)
    /\ UNCHANGED <<PORTB, TCCR0B, cfg, irq, pi_script_running, env,
                   sensedPI_OUT, entryPORTB, entryRunning, passes, entryTCCR0B,
                   hostRose, regs>>

\* PORTB &= ~_BV(PI_IN)
NotifyPowerOn(port) == port \ {PI_IN}

Pin89 ==
    /\ pc = "p89"
    /\ PORTB' = NotifyPowerOn(PORTB)
    /\ pc' = "p92"
    /\ UNCHANGED <<TCCR0B, cfg, irq, pi_script_running, env, hist, regs>>

Pin92 ==
    /\ pc = "p92"
    /\ TCCR0B' = disable_timer0(TCCR0B)
    /\ pc' = "p93"
    /\ UNCHANGED <<PORTB, cfg, irq, pi_script_running, env, hist, regs>>

\* Variants of line 93: a constant instead of the read-back; the LED bit forgotten.
SolidPort_NoReadback(pinb) == {BIG_SWITCH, LED}
SolidPort_NoLed(pinb) == pinb
SolidPort_SetsNotify(pinb) == pinb \cup {LED, PI_IN}

\* PORTB = PINB | _BV(LED)
SolidPort(pinb) == pinb \cup {LED}

Pin93 ==
    /\ pc = "p93"
    /\ tmp' = PINB
    /\ pc' = "p93w"
    /\ UNCHANGED <<PORTB, TCCR0B, cfg, irq, pi_script_running, env, hist, stack>>

Pin93Write ==
    /\ pc = "p93w"
    /\ PORTB' = SolidPort(tmp)
    /\ pc' = "p_reti"
    /\ UNCHANGED <<TCCR0B, cfg, irq, pi_script_running, env, hist, regs>>

\* Variant of line 96 setting the wrong bit.
NotifyPowerOff_WrongBit(port) == port \cup {LED}

\* PORTB |= _BV(PI_IN)
NotifyPowerOff(port) == port \cup {PI_IN}

Pin96 ==
    /\ pc = "p96"
    /\ PORTB' = NotifyPowerOff(PORTB)
    /\ pc' = "p99"
    /\ UNCHANGED <<TCCR0B, cfg, irq, pi_script_running, env, hist, regs>>

Pin99 ==
    /\ pc = "p99"
    /\ TCCR0B' = enable_timer0(TCCR0B)
    /\ pc' = "p_reti"
    /\ UNCHANGED <<PORTB, cfg, irq, pi_script_running, env, hist, regs>>

\* reti: back to the interrupted code with interrupts enabled again
PinChangeReturn ==
    /\ pc = "p_reti"
    /\ SREG_I' = TRUE
    /\ pc' = Head(stack)
    /\ stack' = Tail(stack)
    /\ UNCHANGED <<PORTB, TCCR0B, cfg, PCIF, TOV0, pi_script_running, env, hist,
                   tmp>>

\* ------------------------------------------------------------------ ISR(TIM0_OVF_vect)
\* The overflow vector has a lower priority than the pin change vector.
TimerEntry ==
    /\ SREG_I /\ TOV0 /\ "TOIE0" \in TIMSK
    /\ ~(PCIF /\ "PCIE" \in GIMSK)
    /\ TOV0' = FALSE
    /\ SREG_I' = IAfterEntry
    /\ stack' = <<pc>> \o stack
    /\ pc' = "t105"
    /\ UNCHANGED <<PORTB, TCCR0B, cfg, PCIF, pi_script_running, env, hist, tmp>>

\* Variant of line 105 writing the toggled LED bit alone.
TogglePort_OnlyLed(pinb) == {LED} \ pinb

\* PORTB = PINB ^ _BV(LED)
TogglePort(pinb) == (pinb \ {LED}) \cup ({LED} \ pinb)

Timer105 ==
    /\ pc = "t105"
    /\ tmp' = PINB
    /\ pc' = "t105w"
    /\ UNCHANGED <<PORTB, TCCR0B, cfg, irq, pi_script_running, env, hist, stack>>

Timer105Write ==
    /\ pc = "t105w"
    /\ PORTB' = TogglePort(tmp)
    /\ pc' = "t_reti"
    /\ UNCHANGED <<TCCR0B, cfg, irq, pi_script_running, env, hist, regs>>

TimerReturn ==
    /\ pc = "t_reti"
    /\ SREG_I' = TRUE
    /\ pc' = Head(stack)
    /\ stack' = Tail(stack)
    /\ UNCHANGED <<PORTB, TCCR0B, cfg, PCIF, TOV0, pi_script_running, env, hist,
                   tmp>>

\* ------------------------------------------------------------------ environment
\* An edge on a sensed input sets the pin change flag when the pin is enabled
\* in PCMSK, whatever the CPU is doing.
SwitchedPowerEdge ==
    /\ pinSWITCHED_PWR' = ~pinSWITCHED_PWR
    /\ PCIF' = (PCIF \/ SWITCHED_PWR \in PCMSK)
    /\ UNCHANGED <<pc, PORTB, TCCR0B, cfg, SREG_I, TOV0, pi_script_running,
                   pinPI_OUT, hist, regs>>

HostEdge ==
    /\ pinPI_OUT' = ~pinPI_OUT
    /\ PCIF' = (PCIF \/ PI_OUT \in PCMSK)
    /\ hostRose' = (hostRose \/ (~pinPI_OUT /\ PI_OUT \in PCMSK))
    /\ UNCHANGED <<pc, PORTB, TCCR0B, cfg, SREG_I, TOV0, pi_script_running,
                   pinSWITCHED_PWR, sensedPI_OUT, sensedSW, entryPORTB,
                   entryRunning, passes, entryTCCR0B, regs>>

\* Timer 0 counts only while a clock is selected; its overflow sets TOV0.
TimerOverflow ==
    /\ TimerArmed
    /\ ~TOV0
    /\ TOV0' = TRUE
    /\ UNCHANGED <<pc, PORTB, TCCR0B, cfg, SREG_I, PCIF, pi_script_running,
                   env, hist, regs>>

\* ------------------------------------------------------------------ spec
CPU ==
    \/ Main111 \/ Main114 \/ Main115 \/ Main119 \/ Main120 \/ Main123 \/ Main126
    \/ PinChangeEntry \/ Pin72 \/ Pin74 \/ Pin75 \/ Pin79 \/ Pin83 \/ Pin84
    \/ Pin87 \/ Pin89 \/ Pin92 \/ Pin93 \/ Pin93Write \/ Pin96 \/ Pin99
    \/ PinChangeReturn
    \/ TimerEntry \/ Timer105 \/ Timer105Write \/ TimerReturn

Next == CPU \/ SwitchedPowerEdge \/ HostEdge \/ TimerOverflow

Spec == Init /\ [][Next]_vars

\* The CPU keeps executing: a statement that can run does run.
FairSpec == Spec /\ WF_vars(CPU)

TypeOK ==
    /\ pc \in MainPCs \cup PinPCs \cup TimerPCs \cup {"sleep"}
    /\ PORTB \subseteq PortBits
    /\ TCCR0B \subseteq ClockSelect

\* ------------------------------------------------------------------ properties
\* A pin change pass is complete when the CPU is at its reti or outside the
\* pin change handler after at least one pass was entered.
PassDone == passes /\ pc \notin (PinPCs \ {"p_reti"})
AtPassEnd == pc = "p_reti"
PowerAtEntry  == BIG_SWITCH \in entryPORTB
NotifyAtEntry == PI_IN \in entryPORTB

\* C1: after boot, once MainPowerEnabled is false no step of either handler
\* (the line 93 port rewrite and the timer toggle included) makes it true again.
C1_MonotonicPowerDown ==
    [][(Booted /\ ~MainPowerEnabled) => ~MainPowerEnabled']_vars

\* Main power is off and a later pass has rewritten the port at line 93.
C1_Witness ==
    AtPassEnd /\ ~MainPowerEnabled /\ ~PowerAtEntry /\ sensedSW /\ LedBit

\* C2: main power is off only if the host has been observed running, and the
\* only step that clears it is line 79 in a pass that sensed the host line low
\* with pi_script_running already set when the pass was entered.
C2_RaceFix ==
    /\ [](Booted /\ ~MainPowerEnabled => pi_script_running)
    /\ [][(MainPowerEnabled /\ ~MainPowerEnabled')
            => (pc = "p79" /\ ~sensedPI_OUT /\ entryRunning)]_vars

\* A pass sensed the host line low before the host ever ran: power stays on.
C2_Witness ==
    AtPassEnd /\ ~sensedPI_OUT /\ ~pi_script_running /\ MainPowerEnabled

\* C3: a pass that senses the host line low with pi_script_running set ends
\* with main power off; and with the CPU running, once the host has been
\* observed running and its line is low, main power goes off (or the line goes
\* high again), whatever the level of switched power.
C3_ShutdownCompletes ==
    /\ [](AtPassEnd /\ ~sensedPI_OUT /\ entryRunning => ~MainPowerEnabled)
    /\ ((Booted /\ pi_script_running /\ ~pinPI_OUT)
            ~> (~MainPowerEnabled \/ pinPI_OUT))

\* Line 79 has just cut main power while switched power is absent.
C3_Witness ==
    pc = "p83" /\ PowerAtEntry /\ ~MainPowerEnabled /\ ~pinSWITCHED_PWR
      /\ ~pinPI_OUT

\* C4: after every completed pass with main power on, HostNotify is the
\* negation of the switched power level sensed in that pass, and no step of
\* the timer handler changes HostNotify.
C4_NotifyMirrors ==
    /\ [](PassDone /\ MainPowerEnabled => (HostNotify = ~sensedSW))
    /\ [][(pc \in TimerPCs) => (HostNotify' = HostNotify)]_vars

\* A timer tick has run after a pass that sensed switched power absent.
C4_Witness ==
    pc = "t_reti" /\ passes /\ MainPowerEnabled /\ ~sensedSW /\ HostNotify

\* C5 as stated: a pass entered with main power on and HostNotify false (the
\* last level seen on switched power was high) that senses switched power low
\* ends with HostNotify true, the timer armed and main power still on.
C5_ScenarioB_Original ==
    (AtPassEnd /\ PowerAtEntry /\ ~NotifyAtEntry /\ ~sensedSW)
        => (HostNotify /\ TimerArmed /\ MainPowerEnabled)

\* C5 amended: such a pass ends with HostNotify true and the timer armed, and
\* main power is unchanged unless the pass sensed the host line low with
\* pi_script_running set, in which case main power is off.
C5_ScenarioB ==
    (AtPassEnd /\ PowerAtEntry /\ ~NotifyAtEntry /\ ~sensedSW)
        => /\ HostNotify
           /\ TimerArmed
           /\ MainPowerEnabled = ~(~sensedPI_OUT /\ entryRunning)

\* Switched power dropped while the host runs: notify raised, power kept.
C5_Witness ==
    AtPassEnd /\ PowerAtEntry /\ ~NotifyAtEntry /\ ~sensedSW /\ entryRunning
      /\ sensedPI_OUT /\ HostNotify /\ TimerArmed /\ MainPowerEnabled

\* C6 as stated: after a completed pass with main power off the timer is
\* disarmed and the LED is off.
C6_DarkSink ==
    (Booted /\ PassDone /\ ~MainPowerEnabled) => LedState = "Off"

C8_ScenarioC_Original ==
    (AtPassEnd /\ sensedPI_OUT /\ ~entryRunning)
        => /\ ~TimerArmed
           /\ LedState = "SolidOn"
           /\ pi_script_running
           /\ MainPowerEnabled = PowerAtEntry

\* C8 amended: that pass ends with pi_script_running set and main power
\* unchanged (on); the LED is solid with the timer disarmed when switched
\* power was sensed high, and blinking with the timer armed when sensed low.
C8_ScenarioC ==
    (AtPassEnd /\ sensedPI_OUT /\ ~entryRunning)
        => /\ pi_script_running
           /\ MainPowerEnabled /\ PowerAtEntry
           /\ LedState = (IF sensedSW THEN "SolidOn" ELSE "Blinking")

\* The host came up while switched power was absent: the LED blinks.
C8_Witness ==
    AtPassEnd /\ sensedPI_OUT /\ ~entryRunning /\ ~sensedSW /\ TimerArmed
      /\ pi_script_running

\* C9 as stated: after boot, outside the pin change handler, as long as no
\* pass has sensed the host line high, main power is on and the LED blinks.
C9_BlinkUntilHost ==
    (Booted /\ pc \notin PinPCs /\ ~pi_script_running)
        => (MainPowerEnabled /\ LedState = "Blinking")

\* C10: pi_script_running is false at reset, is set only by line 75 in a pass
\* that sensed the host line high, is set at the end of every such pass, and
\* is never cleared.
C10_Latch ==
    /\ ~pi_script_running
    /\ [][pi_script_running => pi_script_running']_vars
    /\ [][(~pi_script_running /\ pi_script_running')
            => (pc = "p75" /\ sensedPI_OUT)]_vars
    /\ [](AtPassEnd /\ sensedPI_OUT => pi_script_running)

\* The first pass that sensed the host line high has latched the flag.
C10_Witness ==
    AtPassEnd /\ sensedPI_OUT /\ ~entryRunning /\ pi_script_running

\* C11: the step that ends initialisation (sei) leaves main power on,
\* HostNotify low, the LED bit low, the timer armed and pi_script_running
\* false; until the first pass is entered all of these but the LED bit (the
\* armed timer toggles it) stay so, whatever the levels of the two inputs.
C11_BootState ==
    /\ [][(pc = "m126" /\ pc' # "m126")
            => (MainPowerEnabled' /\ ~HostNotify' /\ ~LedBit' /\ TimerArmed'
                  /\ ~pi_script_running')]_vars
    /\ []((Booted /\ ~passes)
            => (MainPowerEnabled /\ ~HostNotify /\ LedState = "Blinking"
                  /\ ~pi_script_running))

\* Initialisation has finished with switched power low and the host line high.
C11_Witness ==
    pc = "sleep" /\ ~passes /\ ~pinSWITCHED_PWR /\ pinPI_OUT
      /\ MainPowerEnabled /\ ~HostNotify /\ ~LedBit /\ TimerArmed

\* C12 as stated: after a completed pass that sensed switched power high (it
\* disarmed the timer and set the LED bit), the LED stays solid on until the
\* next pass: no run of the timer handler changes it.
C12_DisarmedTimerNoEffect ==
    (PassDone /\ sensedSW) => LedState = "SolidOn"

\* C13: the write of the timer handler inverts the LED bit, and no step of
\* the timer handler, its entry and return included, changes main power,
\* HostNotify, pi_script_running or the armed state of the timer.
C13_TickNoDecision ==
    /\ [][(pc = "t105w" /\ pc' # "t105w") => (LedBit' = ~LedBit)]_vars
    /\ [][(pc \in TimerPCs \/ pc' \in TimerPCs)
            => /\ MainPowerEnabled' = MainPowerEnabled
               /\ HostNotify' = HostNotify
               /\ pi_script_running' = pi_script_running
               /\ TimerArmed' = TimerArmed]_vars

\* A tick has run with main power on and HostNotify raised.
C13_Witness ==
    pc = "t_reti" /\ MainPowerEnabled /\ HostNotify /\ pi_script_running
      /\ LedBit

\* C14: while a handler runs interrupts are disabled and the interrupted code
\* is the sleep loop, never a handler; and the output bits a handler read from
\* PINB are still the output bits of the port when it writes the port back.
C14_HandlersExclusive ==
    /\ (pc \in PinPCs \cup TimerPCs) => (~SREG_I /\ stack = <<"sleep">>)
    /\ (pc \in {"p93w", "t105w"}) => (tmp \cap DDRB = PORTB \cap DDRB)

\* The timer handler is between its read and its write while an edge is pending.
C14_Witness ==
    pc = "t105w" /\ PCIF /\ TOV0 /\ MainPowerEnabled

\* C15 as stated (the case it names): once the host line has risen and every
\* pending edge has been served, pi_script_running is set.
C15_OnePassPerEdge_Original ==
    (hostRose /\ pc = "sleep" /\ ~PCIF) => pi_script_running

\* C15 amended: every edge on an enabled input sets the pending flag, a
\* pending flag leads to a pass, and whenever no pass is pending or running
\* the latest pass has read the present level of both inputs.
C15_OnePassPerEdge ==
    /\ [][((pinPI_OUT' # pinPI_OUT /\ PI_OUT \in PCMSK)
             \/ (pinSWITCHED_PWR' # pinSWITCHED_PWR /\ SWITCHED_PWR \in PCMSK))
            => PCIF']_vars
    /\ [](PassDone /\ pc # "p_reti" /\ ~PCIF
            => (sensedPI_OUT = pinPI_OUT /\ sensedSW = pinSWITCHED_PWR))
    /\ (PCIF ~> (pc = "p72"))

\* The host line rose and fell before a pass read it: one pass served both
\* edges, read the line low, and the flag is not set.
C15_Witness ==
    hostRose /\ pc = "sleep" /\ ~PCIF /\ passes /\ ~pinPI_OUT
      /\ ~sensedPI_OUT /\ ~pi_script_running

LedAtEntry   == LED \in entryPORTB
ArmedAtEntry == entryTCCR0B \cap ClockSelect # {}

\* C16 as stated: within a pass each of the power gate, HostNotify, the LED
\* bit and the armed state of the timer changes at most once: once it differs
\* from its value at entry it does not change again.
C16_NoPartialUpdate_Original ==
    [][(pc \in PinPCs)
         => /\ (MainPowerEnabled # PowerAtEntry)
                 => (MainPowerEnabled' = MainPowerEnabled)
            /\ (HostNotify # NotifyAtEntry) => (HostNotify' = HostNotify)
            /\ (LedBit # LedAtEntry) => (LedBit' = LedBit)
            /\ (TimerArmed # ArmedAtEntry) => (TimerArmed' = TimerArmed)]_vars

\* C16 amended: within a pass the power gate and HostNotify each change at
\* most once.
C16_NoPartialUpdate ==
    [][(pc \in PinPCs)
         => /\ (MainPowerEnabled # PowerAtEntry)
                 => (MainPowerEnabled' = MainPowerEnabled)
            /\ (HostNotify # NotifyAtEntry) => (HostNotify' = HostNotify)]_vars

\* HostNotify was cleared at line 89 and line 93 is about to rewrite the port.
C16_Witness ==
    pc = "p93w" /\ NotifyAtEntry /\ ~HostNotify /\ MainPowerEnabled

====
